---- MODULE Spec2Model ----
(***************************************************************************)
(* ConfidentialOtcEscrowWithOZ: the order lifecycle of the confidential    *)
(* OTC escrow contract (createOrder, cancelOrder, fillOrder, finalizeFill, *)
(* revealTerms, isOpen, setGateway), one action per external function.     *)
(* A call that hits a failing require() reverts: the contract storage is   *)
(* left as it was, nothing is emitted, and only the transaction receipt    *)
(* (lastCall) tells that the call happened.                                *)
(***************************************************************************)
EXTENDS Integers, Sequences, FiniteSets, TLC

\* ------------------------------------------------------------------ bounds
MaxAddr == 2        \* externally owned accounts 1..MaxAddr
MaxOrders == 2      \* createOrder is capped at this many orders
MaxTime == 2        \* deadlines run over 0..MaxTime, block.timestamp over 1..MaxTime+1
MaxInput == 1       \* encrypted inputs a maker may submit, 1..MaxInput
MaxPay == 2         \* encrypted payments a taker may submit, 1..MaxPay

\* --------------------------------------------------------------- constants
NullAddr == 0                    \* address(0)
EmptyHandle == 0                 \* euint64.wrap(0)

Addr == 1 .. MaxAddr             \* msg.sender of a transaction
ThisAddr == MaxAddr + 1          \* address(this)
TokenInAddr == MaxAddr + 2       \* the confidential token the taker pays with
TokenOutAddr == MaxAddr + 3      \* the confidential token the maker escrows
Ids == 0 .. MaxOrders - 1        \* order ids a caller may name
Inputs == 1 .. MaxInput
\* handles[k] of encrypted input b: createEncryptedInput(...).add64(amountIn)
\* .add64(amountOut).addAddress(taker).encrypt() yields three handles and one proof.
HandleOf(b, k) == (b - 1) * 3 + k + 1
\* handles[0] of encrypted payment p: createEncryptedInput(...).add64(takerPay).encrypt()
Pays == 1 .. MaxPay
PayHandleOf(p) == MaxInput * 3 + p
\* The plaintext behind a handle, which the contract never sees: bundle b encrypts
\* amountIn = b and amountOut = 2 * b, payment p encrypts the amount p, so payment b
\* matches the amountIn of bundle b and every other payment does not.
AmountOf(h) ==
    IF \E p \in Pays : h = PayHandleOf(p) THEN CHOOSE p \in Pays : h = PayHandleOf(p)
    ELSE IF \E b \in Inputs : h = HandleOf(b, 0) THEN CHOOSE b \in Inputs : h = HandleOf(b, 0)
    ELSE IF \E b \in Inputs : h = HandleOf(b, 1) THEN 2 * (CHOOSE b \in Inputs : h = HandleOf(b, 1))
    ELSE 0

Handles == {HandleOf(b, k) : b \in Inputs, k \in 0 .. 2} \cup {PayHandleOf(p) : p \in Pays}
Times == 0 .. MaxTime

VARIABLES
    deployed,             \* the constructor has run successfully
    gateway,              \* address public gateway
    orders,               \* mapping(uint256 => Order) public orders
    nextOrderId,          \* uint256 public nextOrderId
    now,                  \* block.timestamp
    allowedThis,          \* handles FHE.allow()ed to address(this)
    publiclyDecryptable,  \* handles marked by FHE.makePubliclyDecryptable
    lastCall,             \* the last transaction: function, msg.sender, order id, outcome
    emitted,              \* the events the last transaction emitted
    transfers,            \* the confidentialTransferFrom calls the last transaction made
    fillLog,              \* history: the <<id, taker>> of every FillRequested emitted so far
    formerGateways,       \* history: the addresses setGateway has replaced so far
    eventLog,             \* history: the <<id, name>> of every order event emitted so far
    creates,              \* history: the number of createOrder calls that succeeded
    custody               \* history: the <<id, amount>> of every payment fillOrder escrowed

storage == <<deployed, gateway, orders, nextOrderId, allowedThis, publiclyDecryptable>>
history == <<fillLog, formerGateways, eventLog, creates, custody>>
vars == <<deployed, gateway, orders, nextOrderId, now, allowedThis, publiclyDecryptable,
          lastCall, emitted, transfers, fillLog, formerGateways, eventLog, creates, custody>>

\* The value of orders[id] for an id never written: every field zero.
DefaultOrder ==
    [maker |-> NullAddr, tokenIn |-> NullAddr, tokenOut |-> NullAddr,
     amountInEnc |-> EmptyHandle, amountOutEnc |-> EmptyHandle, takerEnc |-> EmptyHandle,
     deadline |-> 0, filled |-> FALSE, cancelled |-> FALSE, takerPayEnc |-> EmptyHandle]

NoCall == [op |-> "none", sender |-> NullAddr, id |-> 0, ok |-> TRUE, err |-> ""]

Init ==
    /\ deployed = FALSE
    /\ gateway = NullAddr
    /\ orders = [i \in Ids |-> DefaultOrder]
    /\ nextOrderId = 0
    /\ now = 1
    /\ allowedThis = {}
    /\ publiclyDecryptable = {}
    /\ lastCall = NoCall
    /\ emitted = <<>>
    /\ transfers = <<>>
    /\ fillLog = {}
    /\ formerGateways = {}
    /\ eventLog = {}
    /\ creates = 0
    /\ custody = {}

\* A transaction that reverts: storage untouched, no event, no transfer in effect.
Revert(op, sender, id, reason) ==
    /\ lastCall' = [op |-> op, sender |-> sender, id |-> id, ok |-> FALSE, err |-> reason]
    /\ emitted' = <<>>
    /\ transfers' = <<>>
    /\ UNCHANGED <<storage, now>>

\* A transaction that commits.
Receipt(op, sender, id) ==
    lastCall' = [op |-> op, sender |-> sender, id |-> id, ok |-> TRUE, err |-> ""]

\* A null check that lets every address through.
GatewayIsNull_never(_gateway) == FALSE

\* require(_gateway != address(0), "gateway=0"), in the constructor and in setGateway
GatewayIsNull(_gateway) == _gateway = NullAddr

\* constructor(address _gateway)
Constructor(sender, _gateway) ==
    /\ ~deployed
    /\ IF GatewayIsNull(_gateway)
       THEN Revert("constructor", sender, 0, "gateway=0")
       ELSE /\ deployed' = TRUE
            /\ gateway' = _gateway
            /\ Receipt("constructor", sender, 0)
            /\ emitted' = <<>>
            /\ transfers' = <<>>
            /\ UNCHANGED <<orders, nextOrderId, now, allowedThis, publiclyDecryptable>>

\* FHE.fromExternal(ext, attestation): the verified handle, the same 32 bytes
\* re-typed as an internal handle; an attestation the verifier rejects reverts.
FromExternal(ext) == ext

\* A deadline check that also accepts the current instant.
DeadlineInFuture_orNow(deadline) == deadline >= now

\* require(deadline > block.timestamp, "deadline past")
DeadlineInFuture(deadline) == deadline > now

\* require(tokenIn != address(0) && tokenOut != address(0), "token=0")
TokensSet(tokenIn, tokenOut) == tokenIn # NullAddr /\ tokenOut # NullAddr

\* An Order literal with the two amount handles in each other's place.
NewOrder_swappedAmounts(sender, tokenIn, tokenOut, amountIn, amountOut, takerHandle, deadline) ==
    [maker |-> sender, tokenIn |-> tokenIn, tokenOut |-> tokenOut,
     amountInEnc |-> amountOut, amountOutEnc |-> amountIn, takerEnc |-> takerHandle,
     deadline |-> deadline, filled |-> FALSE, cancelled |-> FALSE,
     takerPayEnc |-> EmptyHandle]

\* An Order literal that puts the amountIn handle in the taker-payment slot.
NewOrder_withTakerPay(sender, tokenIn, tokenOut, amountIn, amountOut, takerHandle, deadline) ==
    [maker |-> sender, tokenIn |-> tokenIn, tokenOut |-> tokenOut,
     amountInEnc |-> amountIn, amountOutEnc |-> amountOut, takerEnc |-> takerHandle,
     deadline |-> deadline, filled |-> FALSE, cancelled |-> FALSE,
     takerPayEnc |-> amountIn]

\* The Order literal createOrder stores.
NewOrder(sender, tokenIn, tokenOut, amountIn, amountOut, takerHandle, deadline) ==
    [maker |-> sender, tokenIn |-> tokenIn, tokenOut |-> tokenOut,
     amountInEnc |-> amountIn, amountOutEnc |-> amountOut, takerEnc |-> takerHandle,
     deadline |-> deadline, filled |-> FALSE, cancelled |-> FALSE,
     takerPayEnc |-> EmptyHandle]

\* A transfer with the two parties in each other's place: out of custody.
TransferFrom_reversed(token, from, to, amountExt) == [token |-> token, from |-> to, to |-> from, amount |-> amountExt]

\* IERC7984Minimal(token).confidentialTransferFrom(from, to, amountExt, attestation)
TransferFrom(token, from, to, amountExt) ==
    [token |-> token, from |-> from, to |-> to, amount |-> amountExt]

\* A cancellation announced under the name of another event.
OrderCancelled_asFinalized(id) == [name |-> "OrderFinalized", id |-> id]

\* The events of the contract, as the records a receipt lists.
OrderCreated(id, maker, tokenIn, tokenOut, deadline) ==
    [name |-> "OrderCreated", id |-> id, maker |-> maker, tokenIn |-> tokenIn,
     tokenOut |-> tokenOut, deadline |-> deadline]
FillRequested(id, taker) == [name |-> "FillRequested", id |-> id, taker |-> taker]
OrderFinalized(id, taker) == [name |-> "OrderFinalized", id |-> id, taker |-> taker]
OrderCancelled(id) == [name |-> "OrderCancelled", id |-> id]
TermsRevealed(id) == [name |-> "TermsRevealed", id |-> id]

\* A token call whose revert is swallowed instead of aborting the transaction.
TransferReverts_ignored(doTransfer, transferOk) == FALSE

\* if (doTransfer) token.confidentialTransferFrom(...): the call is made only when
\* asked for, and its revert aborts the enclosing transaction.
TransferReverts(doTransfer, transferOk) == doTransfer /\ ~transferOk

\* A counter that is read but never advanced.
BumpedId_stuck(n) == n

\* id = nextOrderId++: the counter after the allocation.
BumpedId(n) == n + 1

\* createOrder(tokenIn, tokenOut, amountInExt, amountOutExt, maybeTakerExt, attestation,
\*             deadline, doTransferOut); attestationOk and transferOk are the answers of
\* the attestation verifier and of the token contract.
createOrder(sender, tokenIn, tokenOut, amountInExt, amountOutExt, maybeTakerExt, attestationOk, deadline, doTransferOut, transferOk) ==
    /\ deployed
    /\ nextOrderId < MaxOrders
    /\ IF ~DeadlineInFuture(deadline)
       THEN Revert("createOrder", sender, nextOrderId, "deadline past")
       ELSE IF ~TokensSet(tokenIn, tokenOut)
       THEN Revert("createOrder", sender, nextOrderId, "token=0")
       ELSE IF TransferReverts(doTransferOut, transferOk)
       THEN Revert("createOrder", sender, nextOrderId, "transfer")
       ELSE IF ~attestationOk
       THEN Revert("createOrder", sender, nextOrderId, "attestation")
       ELSE LET id == nextOrderId
                amountIn == FromExternal(amountInExt)
                amountOut == FromExternal(amountOutExt)
                takerHandle == FromExternal(maybeTakerExt)
            IN  /\ nextOrderId' = BumpedId(nextOrderId)
                /\ orders' = [orders EXCEPT ![id] =
                       NewOrder(sender, tokenIn, tokenOut, amountIn, amountOut,
                                takerHandle, deadline)]
                /\ allowedThis' = allowedThis \cup {amountOut}
                /\ transfers' = IF doTransferOut
                                THEN <<TransferFrom(tokenOut, sender, ThisAddr, amountOutExt)>>
                                ELSE <<>>
                /\ emitted' = <<OrderCreated(id, sender, tokenIn, tokenOut, deadline)>>
                /\ Receipt("createOrder", sender, nextOrderId)
                /\ UNCHANGED <<deployed, gateway, now, publiclyDecryptable>>

\* A maker check that lets every caller through.
OnlyMaker_anyone(o, sender) == TRUE

\* require(o.maker == msg.sender, "only maker")
OnlyMaker(o, sender) == o.maker = sender

\* A closed check that forgets the filled flag.
NotClosed_ignoresFilled(o) == ~o.cancelled

\* A closed check that looks at filled only.
NotClosed_ignoresCancelled(o) == ~o.filled

\* require(!o.filled && !o.cancelled, "closed")
NotClosed(o) == ~o.filled /\ ~o.cancelled

\* A deadline check that never fires.
NotExpired_never(o) == TRUE

\* A deadline check that already fires at the deadline itself.
NotExpired_strict(o) == now < o.deadline

\* require(block.timestamp <= o.deadline, "expired")
NotExpired(o) == now <= o.deadline

\* o.cancelled = true
MarkCancelled(o) == [o EXCEPT !.cancelled = TRUE]

\* cancelOrder(id)
cancelOrder(sender, id) ==
    /\ deployed
    /\ LET o == orders[id]
       IN  IF ~OnlyMaker(o, sender)
           THEN Revert("cancelOrder", sender, id, "only maker")
           ELSE IF ~NotClosed(o)
           THEN Revert("cancelOrder", sender, id, "closed")
           ELSE /\ orders' = [orders EXCEPT ![id] = MarkCancelled(o)]
                /\ emitted' = <<OrderCancelled(id)>>
                /\ transfers' = <<>>
                /\ Receipt("cancelOrder", sender, id)
                /\ UNCHANGED <<deployed, gateway, nextOrderId, now, allowedThis,
                               publiclyDecryptable>>

\* fillOrder without its deadline check.
FillOrderCheck_noExpiry(o) == IF o.filled \/ o.cancelled THEN "closed" ELSE ""

\* The preconditions of fillOrder: the two require()s at its head; the revert
\* reason of the first one that fails, "" when both pass.
FillOrderCheck(o) ==
    IF ~NotClosed(o) THEN "closed"
    ELSE IF ~NotExpired(o) THEN "expired"
    ELSE ""

\* A fill request that writes the payment handle over the order's amountInEnc.
RecordTakerPay_intoAmountIn(o, takerPay) == [o EXCEPT !.amountInEnc = takerPay]

\* A fill request that also marks the order filled.
RecordTakerPay_andFill(o, takerPay) == [o EXCEPT !.takerPayEnc = takerPay, !.filled = TRUE]

\* o.takerPayEnc = takerPay
RecordTakerPay(o, takerPay) == [o EXCEPT !.takerPayEnc = takerPay]

\* fillOrder(id, takerPayExt, attestation, doTransferIn)
fillOrder(sender, id, takerPayExt, attestationOk, doTransferIn, transferOk) ==
    /\ deployed
    /\ LET o == orders[id]
       IN  IF FillOrderCheck(o) # ""
           THEN Revert("fillOrder", sender, id, FillOrderCheck(o))
           ELSE IF TransferReverts(doTransferIn, transferOk)
           THEN Revert("fillOrder", sender, id, "transfer")
           ELSE IF ~attestationOk
           THEN Revert("fillOrder", sender, id, "attestation")
           ELSE /\ orders' = [orders EXCEPT ![id] =
                       RecordTakerPay(o, FromExternal(takerPayExt))]
                /\ transfers' = IF doTransferIn
                                THEN <<TransferFrom(o.tokenIn, sender, ThisAddr, takerPayExt)>>
                                ELSE <<>>
                /\ emitted' = <<FillRequested(id, sender)>>
                /\ Receipt("fillOrder", sender, id)
                /\ UNCHANGED <<deployed, gateway, nextOrderId, now, allowedThis,
                               publiclyDecryptable>>

\* A gateway check that lets every caller through.
OnlyGateway_anyone(sender) == TRUE

\* A gateway check that still lets a replaced gateway through.
OnlyGateway_orFormer(sender) == sender = gateway \/ sender \in formerGateways

\* require(msg.sender == gateway, "only gateway")
OnlyGateway(sender) == sender = gateway

\* finalizeFill without its closed check.
FinalizeOrderCheck_noClosed(o) == IF now > o.deadline THEN "expired" ELSE ""

\* finalizeFill without its deadline check.
FinalizeOrderCheck_noExpiry(o) == IF o.filled \/ o.cancelled THEN "closed" ELSE ""

\* The preconditions of finalizeFill on the order itself: the two require()s
\* after the gateway check; the revert reason of the first one that fails.
FinalizeOrderCheck(o) ==
    IF ~NotClosed(o) THEN "closed"
    ELSE IF ~NotExpired(o) THEN "expired"
    ELSE ""

\* o.filled = true
MarkFilled(o) == [o EXCEPT !.filled = TRUE]

\* finalizeFill(id, taker)
finalizeFill(sender, id, taker) ==
    /\ deployed
    /\ LET o == orders[id]
       IN  IF ~OnlyGateway(sender)
           THEN Revert("finalizeFill", sender, id, "only gateway")
           ELSE IF FinalizeOrderCheck(o) # ""
           THEN Revert("finalizeFill", sender, id, FinalizeOrderCheck(o))
           ELSE /\ orders' = [orders EXCEPT ![id] = MarkFilled(o)]
                /\ emitted' = <<OrderFinalized(id, taker)>>
                /\ transfers' = <<>>
                /\ Receipt("finalizeFill", sender, id)
                /\ UNCHANGED <<deployed, gateway, nextOrderId, now, allowedThis,
                               publiclyDecryptable>>

\* A close check that takes an expired order for a closed one.
Closed_orExpired(o) == o.filled \/ o.cancelled \/ now > o.deadline

\* require(o.filled || o.cancelled, "only after close")
Closed(o) == o.filled \/ o.cancelled

\* The preconditions of revealTerms; the revert reason of the first that fails.
RevealCheck(o, sender) ==
    IF ~OnlyMaker(o, sender) THEN "only maker"
    ELSE IF ~Closed(o) THEN "only after close"
    ELSE ""

\* A reveal that forgets the allowed-taker handle.
RevealedHandles_noTaker(o) == {o.amountInEnc, o.amountOutEnc}

\* The handles revealTerms passes to FHE.makePubliclyDecryptable.
RevealedHandles(o) == {o.amountInEnc, o.amountOutEnc, o.takerEnc}

\* revealTerms(id)
revealTerms(sender, id) ==
    /\ deployed
    /\ LET o == orders[id]
       IN  IF RevealCheck(o, sender) # ""
           THEN Revert("revealTerms", sender, id, RevealCheck(o, sender))
           ELSE /\ publiclyDecryptable' = publiclyDecryptable \cup RevealedHandles(o)
                /\ emitted' = <<TermsRevealed(id)>>
                /\ transfers' = <<>>
                /\ Receipt("revealTerms", sender, id)
                /\ UNCHANGED <<deployed, gateway, orders, nextOrderId, now, allowedThis>>

\* An openness test that forgets the deadline.
isOpen_ignoresDeadline(id) == ~orders[id].filled /\ ~orders[id].cancelled

\* isOpen(id): a view
isOpen(id) ==
    LET o == orders[id]
    IN  ~o.filled /\ ~o.cancelled /\ now <= o.deadline

\* setGateway(_gateway)
setGateway(sender, _gateway) ==
    /\ deployed
    /\ IF ~OnlyGateway(sender)
       THEN Revert("setGateway", sender, 0, "only gateway")
       ELSE IF GatewayIsNull(_gateway)
       THEN Revert("setGateway", sender, 0, "gateway=0")
       ELSE /\ gateway' = _gateway
            /\ emitted' = <<>>
            /\ transfers' = <<>>
            /\ Receipt("setGateway", sender, 0)
            /\ UNCHANGED <<deployed, orders, nextOrderId, now, allowedThis,
                           publiclyDecryptable>>

\* block.timestamp moves on between transactions.
Tick ==
    /\ now <= MaxTime
    /\ now' = now + 1
    /\ UNCHANGED <<storage, lastCall, emitted, transfers>>

\* The token contract answers (accepts or reverts) only when it is called.
TokenAnswers(doTransfer) == IF doTransfer THEN BOOLEAN ELSE {TRUE}

\* An argument a call does not read, because a require before its first use has
\* already reverted the transaction, makes no difference to the step: it is fixed.
UnreadUnless(read, values, fixed) == IF read THEN values ELSE {fixed}

Next ==
    \/ \E s \in Addr, g \in Addr \cup {NullAddr} : Constructor(s, g) /\ UNCHANGED history
    \/ \E s \in Addr, deadline \in Times :
       \E tokenIn \in UnreadUnless(DeadlineInFuture(deadline), {NullAddr, TokenInAddr}, TokenInAddr),
          tokenOut \in UnreadUnless(DeadlineInFuture(deadline), {NullAddr, TokenOutAddr}, TokenOutAddr) :
       \E doTransferOut \in UnreadUnless(DeadlineInFuture(deadline) /\ TokensSet(tokenIn, tokenOut), BOOLEAN, FALSE) :
       \E transferOk \in TokenAnswers(doTransferOut) :
       \E b \in Inputs,
          attestationOk \in UnreadUnless(/\ DeadlineInFuture(deadline)
                                         /\ TokensSet(tokenIn, tokenOut)
                                         /\ ~TransferReverts(doTransferOut, transferOk), BOOLEAN, TRUE) :
          /\ createOrder(s, tokenIn, tokenOut, HandleOf(b, 0), HandleOf(b, 1), HandleOf(b, 2),
                         attestationOk, deadline, doTransferOut, transferOk)
          /\ UNCHANGED history
    \/ \E s \in Addr, id \in Ids : cancelOrder(s, id) /\ UNCHANGED history
    \/ \E s \in Addr, id \in Ids :
       \E doTransferIn \in UnreadUnless(FillOrderCheck(orders[id]) = "", BOOLEAN, FALSE) :
       \E transferOk \in TokenAnswers(doTransferIn) :
       \E attestationOk \in UnreadUnless(/\ FillOrderCheck(orders[id]) = ""
                                         /\ ~TransferReverts(doTransferIn, transferOk), BOOLEAN, TRUE) :
       \E p \in UnreadUnless(/\ FillOrderCheck(orders[id]) = ""
                             /\ ~TransferReverts(doTransferIn, transferOk)
                             /\ attestationOk, Pays, MaxPay) :
          /\ fillOrder(s, id, PayHandleOf(p), attestationOk, doTransferIn, transferOk)
          /\ UNCHANGED history
    \/ \E s \in Addr, id \in Ids :
       \E taker \in UnreadUnless(OnlyGateway(s) /\ FinalizeOrderCheck(orders[id]) = "", Addr, s) :
          finalizeFill(s, id, taker) /\ UNCHANGED history
    \/ \E s \in Addr, id \in Ids : revealTerms(s, id) /\ UNCHANGED history
    \/ \E s \in Addr :
       \E g \in UnreadUnless(OnlyGateway(s), Addr \cup {NullAddr}, NullAddr) :
          setGateway(s, g) /\ UNCHANGED history
    \/ Tick /\ UNCHANGED history

\* Spec keeps no history: the history variables stay as Init leaves them.
Spec == Init /\ [][Next]_vars

\* The history a transaction leaves: a successful fillOrder emits FillRequested(id,
\* msg.sender), and a setGateway that changes the gateway retires the old one.
Record ==
    /\ fillLog' = IF lastCall'.op = "fillOrder" /\ lastCall'.ok
                  THEN fillLog \cup {<<lastCall'.id, lastCall'.sender>>}
                  ELSE fillLog
    /\ formerGateways' = IF deployed /\ gateway' # gateway
                         THEN formerGateways \cup {gateway}
                         ELSE formerGateways
    /\ UNCHANGED <<eventLog, creates, custody>>

\* The same contract with the history recorded. To keep the recorded state space
\* within reach the callers send well-formed calls only: non-null tokens, attestations
\* the verifier accepts, no transfer asked for, and one payment input.
NextH ==
    \/ \E s \in Addr, g \in Addr \cup {NullAddr} : Constructor(s, g) /\ Record
    \/ \E s \in Addr, b \in Inputs, deadline \in Times :
          /\ createOrder(s, TokenInAddr, TokenOutAddr, HandleOf(b, 0), HandleOf(b, 1), HandleOf(b, 2),
                         TRUE, deadline, FALSE, TRUE)
          /\ Record
    \/ \E s \in Addr, id \in Ids : cancelOrder(s, id) /\ Record
    \/ \E s \in Addr, id \in Ids :
          fillOrder(s, id, PayHandleOf(MaxPay), TRUE, FALSE, TRUE) /\ Record
    \/ \E s \in Addr, id \in Ids :
       \E taker \in UnreadUnless(OnlyGateway(s) /\ FinalizeOrderCheck(orders[id]) = "", Addr, s) :
          finalizeFill(s, id, taker) /\ Record
    \/ \E s \in Addr, id \in Ids : revealTerms(s, id) /\ Record
    \/ \E s \in Addr :
       \E g \in UnreadUnless(OnlyGateway(s), Addr \cup {NullAddr}, NullAddr) :
          setGateway(s, g) /\ Record
    \/ Tick /\ Record

SpecH == Init /\ [][NextH]_vars

\* The events a transaction leaves: every emitted event is logged under its order
\* id, and a successful createOrder counts.
RecordEvents ==
    /\ eventLog' = eventLog \cup {<<emitted'[i].id, emitted'[i].name>> : i \in 1 .. Len(emitted')}
    /\ creates' = IF now' = now /\ lastCall'.op = "createOrder" /\ lastCall'.ok
                  THEN creates + 1
                  ELSE creates
    /\ UNCHANGED <<fillLog, formerGateways, custody>>

\* The same well-formed calls with the events recorded.
NextE ==
    \/ \E s \in Addr, g \in Addr \cup {NullAddr} : Constructor(s, g) /\ RecordEvents
    \/ \E s \in Addr, b \in Inputs, deadline \in Times :
          /\ createOrder(s, TokenInAddr, TokenOutAddr, HandleOf(b, 0), HandleOf(b, 1), HandleOf(b, 2),
                         TRUE, deadline, FALSE, TRUE)
          /\ RecordEvents
    \/ \E s \in Addr, id \in Ids : cancelOrder(s, id) /\ RecordEvents
    \/ \E s \in Addr, id \in Ids :
          fillOrder(s, id, PayHandleOf(MaxPay), TRUE, FALSE, TRUE) /\ RecordEvents
    \/ \E s \in Addr, id \in Ids :
       \E taker \in UnreadUnless(OnlyGateway(s) /\ FinalizeOrderCheck(orders[id]) = "", Addr, s) :
          finalizeFill(s, id, taker) /\ RecordEvents
    \/ \E s \in Addr, id \in Ids : revealTerms(s, id) /\ RecordEvents
    \/ \E s \in Addr :
       \E g \in UnreadUnless(OnlyGateway(s), Addr \cup {NullAddr}, NullAddr) :
          setGateway(s, g) /\ RecordEvents
    \/ Tick /\ RecordEvents

SpecE == Init /\ [][NextE]_vars

\* The payments a transaction leaves in the contract's custody: a successful
\* fillOrder that was asked to transfer has moved its payment in.
RecordCustody ==
    /\ custody' = IF now' = now /\ lastCall'.op = "fillOrder" /\ lastCall'.ok
                  THEN custody \cup {<<lastCall'.id, transfers'[i].amount>> : i \in 1 .. Len(transfers')}
                  ELSE custody
    /\ UNCHANGED <<fillLog, formerGateways, eventLog, creates>>

\* The life of the orders with the escrowed payments recorded: well-formed
\* createOrder calls, fillOrder with every payment input and with or without the
\* transfer, cancelOrder, finalizeFill, and the passing of time.
NextC ==
    \/ \E s \in Addr, g \in Addr : Constructor(s, g) /\ RecordCustody
    \/ \E s \in Addr, b \in Inputs, deadline \in Times :
          /\ createOrder(s, TokenInAddr, TokenOutAddr, HandleOf(b, 0), HandleOf(b, 1), HandleOf(b, 2),
                         TRUE, deadline, FALSE, TRUE)
          /\ RecordCustody
    \/ \E s \in Addr, id \in Ids : cancelOrder(s, id) /\ RecordCustody
    \/ \E s \in Addr, id \in Ids, p \in Pays, doTransferIn \in BOOLEAN :
          fillOrder(s, id, PayHandleOf(p), TRUE, doTransferIn, TRUE) /\ RecordCustody
    \/ \E s \in Addr, id \in Ids, taker \in Addr : finalizeFill(s, id, taker) /\ RecordCustody
    \/ Tick /\ RecordCustody

SpecC == Init /\ [][NextC]_vars

\* Spec with the passage of time made fair: the ledger keeps producing blocks, and
\* block.timestamp increases with them, so the clock step cannot be postponed
\* forever while it is possible.
SpecL == Init /\ [][Next]_vars /\ WF_vars(Tick /\ UNCHANGED history)

\* ------------------------------------------------------- the useOrders hook
\* Number(x) of a uint64 read from the contract: a double holds every integer up to
\* Number.MAX_SAFE_INTEGER exactly and, in the binade above it, only the even ones,
\* an odd one being rounded to the neighbour that is a multiple of 4 (ties to even).
\* The model scales 2^53 down to MaxSafeInteger, which stays above every clock
\* value, as 2^53 stays above every value of Math.floor(Date.now() / 1000).
MaxSafeInteger == 2 * MaxTime
FarDeadline == MaxSafeInteger + 1        \* a uint64 deadline Number() cannot hold

ToNumber(x) ==
    IF x <= MaxSafeInteger THEN x
    ELSE IF x % 2 = 0 THEN x
    ELSE IF (x + 1) % 4 = 0 THEN x + 1
    ELSE x - 1

\* The ids fetchOrders reads: for (let i = 0; i < totalOrders; i++).
FetchedIds == {i \in Ids : i < ToNumber(nextOrderId)}

\* isExpired with the comparison weakened to deadline <= now.
Status_expiredAtDeadline(id) ==
    IF orders[id].filled THEN "filled"
    ELSE IF orders[id].cancelled THEN "cancelled"
    ELSE IF ToNumber(orders[id].deadline) <= now THEN "expired"
    ELSE "active"

\* The status fetchOrders computes for a fetched order, with now the hook's
\* Math.floor(Date.now() / 1000) taken equal to block.timestamp.
Status(id) ==
    IF orders[id].filled THEN "filled"
    ELSE IF orders[id].cancelled THEN "cancelled"
    ELSE IF ToNumber(orders[id].deadline) < now THEN "expired"
    ELSE "active"

\* The contract as the hook's page drives it: well-formed calls, with deadlines that
\* include one beyond the safe integers.
NextU ==
    \/ \E s \in Addr, g \in Addr : Constructor(s, g) /\ UNCHANGED history
    \/ \E s \in Addr, b \in Inputs, deadline \in Times \cup {FarDeadline} :
          /\ createOrder(s, TokenInAddr, TokenOutAddr, HandleOf(b, 0), HandleOf(b, 1), HandleOf(b, 2),
                         TRUE, deadline, FALSE, TRUE)
          /\ UNCHANGED history
    \/ \E s \in Addr, id \in Ids : cancelOrder(s, id) /\ UNCHANGED history
    \/ \E s \in Addr, id \in Ids :
          fillOrder(s, id, PayHandleOf(MaxPay), TRUE, FALSE, TRUE) /\ UNCHANGED history
    \/ \E s \in Addr, id \in Ids, taker \in Addr : finalizeFill(s, id, taker) /\ UNCHANGED history
    \/ Tick /\ UNCHANGED history

SpecU == Init /\ [][NextU]_vars

\* -------------------------------------------------------------- properties
\* An order that was created: its id is below nextOrderId.
Created(id) == id < nextOrderId

\* A step that is a transaction calling function op (Tick alone moves now).
CallStep(op) == now' = now /\ lastCall'.op = op

\* What a reverted call leaves behind: storage as it was, no event, no transfer.
NothingHappened ==
    /\ lastCall'.ok = FALSE
    /\ UNCHANGED storage
    /\ emitted' = <<>>
    /\ transfers' = <<>>

\* C1: finalizeFill called by any identity other than the current gateway fails,
\* for every order id, and leaves the order and all other storage unchanged (filled
\* is never set), also when the order is open and has a recorded taker payment.
C1_NonGatewayFinalizeFails ==
    [][(CallStep("finalizeFill") /\ lastCall'.sender # gateway) => NothingHappened]_vars

\* C1 witness: a finalizeFill by a caller other than the gateway has just been
\* rejected on an order that is open and carries a recorded taker payment handle.
C1_Witness ==
    /\ lastCall.op = "finalizeFill"
    /\ lastCall.sender # gateway
    /\ ~lastCall.ok
    /\ Created(lastCall.id)
    /\ isOpen(lastCall.id)
    /\ orders[lastCall.id].takerPayEnc # EmptyHandle

\* C2 (as stated): filled only ever becomes true from a state where the order's
\* takerPayEnc is non-empty and filled = cancelled = false, so finalizeFill on an
\* order no fillOrder has succeeded on fails for every caller, the gateway included.
C2_FinalizeNeedsFillRequest ==
    [][\A id \in Ids :
          (~orders[id].filled /\ orders'[id].filled) =>
              (orders[id].takerPayEnc # EmptyHandle /\ ~orders[id].cancelled)]_vars

\* C3: for every order, in every reachable state, filled and cancelled are never
\* both true.
C3_NeverFilledAndCancelled ==
    \A id \in Ids : ~(orders[id].filled /\ orders[id].cancelled)

\* C3 witness: both closing operations have acted: one order is filled, the other
\* cancelled.
C3_Witness ==
    /\ orders[0].filled
    /\ orders[1].cancelled

\* C4: closure is terminal. A filled order stays filled and never becomes cancelled, a
\* cancelled order stays cancelled and never becomes filled; a successful finalizeFill
\* leaves the order filled and not open; and every cancelOrder, fillOrder or
\* finalizeFill on a filled order fails and changes nothing.
C4_ClosureIsTerminal ==
    [][/\ \A id \in Ids :
             /\ orders[id].filled => (orders'[id].filled /\ ~orders'[id].cancelled)
             /\ orders[id].cancelled => (orders'[id].cancelled /\ ~orders'[id].filled)
       /\ (CallStep("finalizeFill") /\ lastCall'.ok) =>
             (orders'[lastCall'.id].filled /\ ~isOpen(lastCall.id)')
       /\ (/\ CallStep("cancelOrder") \/ CallStep("fillOrder") \/ CallStep("finalizeFill")
           /\ orders[lastCall'.id].filled)
             => NothingHappened]_vars

\* C4 witness: an order is filled and a later cancelOrder on it by its maker has just
\* been rejected.
C4_Witness ==
    /\ lastCall.op = "cancelOrder"
    /\ ~lastCall.ok
    /\ orders[lastCall.id].filled
    /\ lastCall.sender = orders[lastCall.id].maker

\* C5 (as stated): takerPayEnc is set exactly once per order: once a fillOrder has
\* recorded a payment handle, a second fillOrder on the same order fails and the
\* recorded handle keeps its first value in every later state.
C5_TakerPaySetOnce ==
    [][\A id \in Ids :
          orders[id].takerPayEnc # EmptyHandle =>
              (/\ orders'[id].takerPayEnc = orders[id].takerPayEnc
               /\ (CallStep("fillOrder") /\ lastCall'.id = id) => ~lastCall'.ok)]_vars

\* C6: fillOrder against an order that is cancelled, filled or past its deadline
\* (now > deadline) fails for every caller, payment handle, attestation and
\* doTransferIn value, leaves takerPayEnc and the rest of the storage unchanged and
\* leaves no transfer in effect.
C6_FillOnClosedOrExpiredFails ==
    [][(/\ CallStep("fillOrder")
        /\ \/ orders[lastCall'.id].cancelled
           \/ orders[lastCall'.id].filled
           \/ now > orders[lastCall'.id].deadline)
          => NothingHappened]_vars

\* C6 witness: a fillOrder has just been rejected on a created order that is neither
\* filled nor cancelled and whose deadline has passed.
C6_Witness ==
    /\ lastCall.op = "fillOrder"
    /\ ~lastCall.ok
    /\ Created(lastCall.id)
    /\ ~orders[lastCall.id].filled /\ ~orders[lastCall.id].cancelled
    /\ now > orders[lastCall.id].deadline

C8_NoFinalizeAfterDeadline ==
    [][\A id \in Ids :
          (Created(id) /\ now > orders[id].deadline /\ ~orders[id].filled) =>
              (now' > orders'[id].deadline /\ ~orders'[id].filled)]_vars

\* C8 witness: the gateway's finalizeFill has just been rejected on an order that
\* carries a recorded taker payment, is neither filled nor cancelled, and is past its
\* deadline.
C8_Witness ==
    /\ lastCall.op = "finalizeFill"
    /\ lastCall.sender = gateway
    /\ ~lastCall.ok
    /\ orders[lastCall.id].takerPayEnc # EmptyHandle
    /\ ~orders[lastCall.id].filled /\ ~orders[lastCall.id].cancelled
    /\ now > orders[lastCall.id].deadline

\* C9: cancelOrder by anyone other than the order's maker fails; by the maker on an
\* open order it succeeds, sets cancelled = true and emits OrderCancelled(id); by the
\* maker on an already cancelled order it fails and leaves the storage unchanged.
C9_CancelOnlyByMakerOnce ==
    [][CallStep("cancelOrder") =>
          /\ lastCall'.sender # orders[lastCall'.id].maker => NothingHappened
          /\ (lastCall'.sender = orders[lastCall'.id].maker /\ isOpen(lastCall'.id)) =>
                /\ lastCall'.ok
                /\ orders'[lastCall'.id].cancelled
                /\ emitted' = <<OrderCancelled(lastCall'.id)>>
          /\ (/\ lastCall'.sender = orders[lastCall'.id].maker
              /\ orders[lastCall'.id].cancelled)
                => NothingHappened]_vars

\* C9 witness: an order is cancelled and a second cancelOrder by its maker has just
\* been rejected.
C9_Witness ==
    /\ lastCall.op = "cancelOrder"
    /\ ~lastCall.ok
    /\ lastCall.sender = orders[lastCall.id].maker
    /\ orders[lastCall.id].cancelled

\* C10: revealTerms fails, marking no handle publicly decryptable and emitting
\* nothing, unless the caller is the order's maker and the order is filled or
\* cancelled; it fails on an open order and on one that has only expired.
C10_RevealOnlyByMakerAfterClose ==
    [][(/\ CallStep("revealTerms")
        /\ ~(/\ lastCall'.sender = orders[lastCall'.id].maker
             /\ orders[lastCall'.id].filled \/ orders[lastCall'.id].cancelled))
          => NothingHappened]_vars

\* C10 witness: the maker's revealTerms has just been rejected on an order that has
\* expired without being filled or cancelled.
C10_Witness ==
    /\ lastCall.op = "revealTerms"
    /\ ~lastCall.ok
    /\ lastCall.sender = orders[lastCall.id].maker
    /\ ~orders[lastCall.id].filled /\ ~orders[lastCall.id].cancelled
    /\ now > orders[lastCall.id].deadline

\* C11 (as stated): after close the maker's revealTerms succeeds, and each of the
\* three handles is marked publicly decryptable by exactly one successful reveal: a
\* successful reveal never marks a handle that an earlier reveal has already marked;
\* and no handle ever leaves the publicly decryptable set.
C11_RevealExactlyOncePerHandle ==
    [][/\ publiclyDecryptable \subseteq publiclyDecryptable'
       /\ (CallStep("revealTerms") /\ lastCall'.ok) =>
             LET o == orders[lastCall'.id]
             IN  {o.amountInEnc, o.amountOutEnc, o.takerEnc} \cap publiclyDecryptable = {}]_vars

\* C11: revealTerms by the maker of a filled or cancelled order succeeds every time it
\* is called, whether or not the handles were revealed before: it emits
\* TermsRevealed(id), leaves the three handles publicly decryptable and changes
\* nothing else; and no handle ever leaves the publicly decryptable set.
C11_RevealAfterCloseSucceedsAndStays ==
    [][/\ publiclyDecryptable \subseteq publiclyDecryptable'
       /\ (/\ CallStep("revealTerms")
           /\ lastCall'.sender = orders[lastCall'.id].maker
           /\ orders[lastCall'.id].filled \/ orders[lastCall'.id].cancelled) =>
             LET o == orders[lastCall'.id]
             IN  /\ lastCall'.ok
                 /\ {o.amountInEnc, o.amountOutEnc, o.takerEnc} \subseteq publiclyDecryptable'
                 /\ emitted' = <<TermsRevealed(lastCall'.id)>>
                 /\ UNCHANGED <<deployed, gateway, orders, nextOrderId, allowedThis>>]_vars

\* C11 witness: the maker's revealTerms has just succeeded on a closed order and its
\* three handles are publicly decryptable.
C11_Witness ==
    /\ lastCall.op = "revealTerms"
    /\ lastCall.ok
    /\ orders[lastCall.id].cancelled
    /\ {orders[lastCall.id].amountInEnc, orders[lastCall.id].amountOutEnc,
        orders[lastCall.id].takerEnc} \subseteq publiclyDecryptable

C13_FilledOnlyOnMatchingPayment ==
    \A id \in Ids :
        (Created(id) /\ orders[id].filled /\ orders[id].takerPayEnc # EmptyHandle) =>
            AmountOf(orders[id].takerPayEnc) = AmountOf(orders[id].amountInEnc)

\* C14: the first successful createOrder returns id 0 and each later one returns the
\* previous id plus one: a successful createOrder returns the current nextOrderId,
\* whose slot has never been written, and advances nextOrderId by exactly one; no
\* other step changes nextOrderId, so no id is skipped or handed out twice.
C14_IdsCountUpFromZero ==
    [][/\ (CallStep("createOrder") /\ lastCall'.ok) =>
             /\ lastCall'.id = nextOrderId
             /\ nextOrderId' = nextOrderId + 1
             /\ orders[lastCall'.id] = DefaultOrder
             /\ orders'[lastCall'.id].maker = lastCall'.sender
             /\ emitted'[1].id = lastCall'.id
             /\ (lastCall.op = "constructor" => lastCall'.id = 0)
       /\ nextOrderId' # nextOrderId => (CallStep("createOrder") /\ lastCall'.ok)
       /\ \A id \in Ids : (id >= nextOrderId /\ id >= nextOrderId') =>
                              (orders[id] = DefaultOrder /\ orders'[id] = DefaultOrder)]_vars

\* C14 witness: two orders have been created, the second of them just now with id 1.
C14_Witness ==
    /\ lastCall.op = "createOrder"
    /\ lastCall.ok
    /\ lastCall.id = 1
    /\ nextOrderId = 2
    /\ orders[0].maker # NullAddr /\ orders[1].maker # NullAddr

\* C15: a createOrder call succeeds only with a deadline strictly later than the
\* current time and both token addresses non-null; a createOrder call that fails
\* creates no order, leaves nextOrderId alone, emits nothing and moves nothing.
C15_CreateNeedsFutureDeadlineAndTokens ==
    [][CallStep("createOrder") =>
          IF lastCall'.ok
          THEN \A tokenIn \in {NullAddr, TokenInAddr}, tokenOut \in {NullAddr, TokenOutAddr} :
               \A b \in Inputs, deadline \in Times :
               \A attestationOk \in BOOLEAN, doTransferOut \in BOOLEAN, transferOk \in BOOLEAN :
                   createOrder(lastCall'.sender, tokenIn, tokenOut, HandleOf(b, 0), HandleOf(b, 1), HandleOf(b, 2), attestationOk, deadline, doTransferOut, transferOk)
                     => (deadline > now /\ tokenIn # NullAddr /\ tokenOut # NullAddr)
          ELSE NothingHappened]_vars

\* C15 witness: with one order in the store, a createOrder whose deadline is not in
\* the future has just been rejected, and the next slot is still unwritten.
C15_Witness ==
    /\ lastCall.op = "createOrder"
    /\ ~lastCall.ok
    /\ lastCall.err = "deadline past"
    /\ nextOrderId = 1
    /\ orders[1] = DefaultOrder

\* C16: escrow-then-import is all-or-nothing in createOrder and fillOrder. A call that
\* succeeds had its attestation accepted and, when the transfer was asked for, the
\* transfer accepted, and exactly that transfer is in effect; a call that fails leaves
\* no order created or modified, nextOrderId unchanged, no event and no transfer; and
\* the import is reached only after the transfer: a call fails on its attestation
\* only when the transfer, if asked for, has gone through.
C16_EscrowThenImportAllOrNothing ==
    [][/\ CallStep("createOrder") =>
             /\ ~lastCall'.ok => NothingHappened
             /\ (lastCall'.ok \/ lastCall'.err = "attestation") =>
                   \A tokenIn \in {NullAddr, TokenInAddr}, tokenOut \in {NullAddr, TokenOutAddr} :
                   \A b \in Inputs, deadline \in Times :
                   \A attestationOk \in BOOLEAN, doTransferOut \in BOOLEAN, transferOk \in BOOLEAN :
                       createOrder(lastCall'.sender, tokenIn, tokenOut, HandleOf(b, 0), HandleOf(b, 1), HandleOf(b, 2), attestationOk, deadline, doTransferOut, transferOk)
                         => /\ doTransferOut => transferOk
                            /\ lastCall'.ok => attestationOk
                            /\ lastCall'.ok => Len(transfers') = (IF doTransferOut THEN 1 ELSE 0)
       /\ CallStep("fillOrder") =>
             /\ ~lastCall'.ok => NothingHappened
             /\ (lastCall'.ok \/ lastCall'.err = "attestation") =>
                   \A p \in Pays :
                   \A attestationOk \in BOOLEAN, doTransferIn \in BOOLEAN, transferOk \in BOOLEAN :
                       fillOrder(lastCall'.sender, lastCall'.id, PayHandleOf(p), attestationOk, doTransferIn, transferOk)
                         => /\ doTransferIn => transferOk
                            /\ lastCall'.ok => attestationOk
                            /\ lastCall'.ok => Len(transfers') = (IF doTransferIn THEN 1 ELSE 0)]_vars

\* C16 witness: a fillOrder on an open order has just been aborted by the token's
\* refusal of the transfer, and the order still has no taker payment recorded.
C16_Witness ==
    /\ lastCall.op = "fillOrder"
    /\ ~lastCall.ok
    /\ lastCall.err = "transfer"
    /\ orders[lastCall.id].takerPayEnc = EmptyHandle
    /\ transfers = <<>> /\ emitted = <<>>

\* The event each operation announces its success with.
EventOf(op) ==
    CASE op = "createOrder"  -> "OrderCreated"
      [] op = "cancelOrder"  -> "OrderCancelled"
      [] op = "fillOrder"    -> "FillRequested"
      [] op = "finalizeFill" -> "OrderFinalized"
      [] op = "revealTerms"  -> "TermsRevealed"

\* C17: each createOrder, cancelOrder, fillOrder, finalizeFill and revealTerms that
\* succeeds emits exactly one event, the one named after the operation and carrying
\* the order's id; each one that fails emits nothing and changes no part of the
\* state.
C17_OneEventOnSuccessNothingOnFailure ==
    [][\A op \in {"createOrder", "cancelOrder", "fillOrder", "finalizeFill", "revealTerms"} :
          CallStep(op) =>
             IF lastCall'.ok
             THEN /\ Len(emitted') = 1
                  /\ emitted'[1].name = EventOf(op)
                  /\ emitted'[1].id = lastCall'.id
             ELSE NothingHappened]_vars

\* C17 witness: the second order has just been cancelled by its maker, with the single
\* event OrderCancelled(1) emitted.
C17_Witness ==
    /\ lastCall.op = "cancelOrder"
    /\ lastCall.ok
    /\ lastCall.id = 1
    /\ Len(emitted) = 1
    /\ emitted[1].name = "OrderCancelled"
    /\ emitted[1].id = 1

\* C18: in every state isOpen(id) is exactly "not filled, not cancelled and now <=
\* deadline" of the stored order (a function of the state, with no effect on it); it
\* is true in the state a successful createOrder leaves and false in the state a
\* successful cancelOrder leaves.
C18_IsOpenIsTheDerivedPredicate ==
    [][/\ \A id \in Ids :
             isOpen(id) = (/\ orders[id].filled = FALSE
                           /\ orders[id].cancelled = FALSE
                           /\ now <= orders[id].deadline)
       /\ (CallStep("createOrder") /\ lastCall'.ok) => isOpen(lastCall.id)'
       /\ (CallStep("cancelOrder") /\ lastCall'.ok) => ~isOpen(lastCall.id)']_vars

\* C18 witness: an order that is still within its deadline has just been cancelled
\* and is no longer open, while the other order is open.
C18_Witness ==
    /\ lastCall.op = "cancelOrder"
    /\ lastCall.ok
    /\ now <= orders[lastCall.id].deadline
    /\ ~isOpen(lastCall.id)
    /\ \E id \in Ids : Created(id) /\ isOpen(id)

\* C19: a successful createOrder stores under the returned id an order whose maker is
\* the caller, whose tokens and deadline are the ones supplied, whose three handles
\* are the ones imported from the call's inputs, with filled = cancelled = false and
\* no taker payment, whether or not the transfer was asked for; it leaves the other
\* orders alone and emits OrderCreated(id, maker, tokenIn, tokenOut, deadline).
C19_CreateStoresWhatWasSupplied ==
    [][(CallStep("createOrder") /\ lastCall'.ok) =>
          \A tokenIn \in {NullAddr, TokenInAddr}, tokenOut \in {NullAddr, TokenOutAddr} :
          \A b \in Inputs, deadline \in Times :
          \A attestationOk \in BOOLEAN, doTransferOut \in BOOLEAN, transferOk \in BOOLEAN :
              createOrder(lastCall'.sender, tokenIn, tokenOut, HandleOf(b, 0), HandleOf(b, 1), HandleOf(b, 2), attestationOk, deadline, doTransferOut, transferOk)
                => /\ orders'[lastCall'.id] =
                         [maker |-> lastCall'.sender, tokenIn |-> tokenIn,
                          tokenOut |-> tokenOut, amountInEnc |-> HandleOf(b, 0),
                          amountOutEnc |-> HandleOf(b, 1), takerEnc |-> HandleOf(b, 2),
                          deadline |-> deadline, filled |-> FALSE, cancelled |-> FALSE,
                          takerPayEnc |-> EmptyHandle]
                   /\ \A other \in Ids \ {lastCall'.id} : orders'[other] = orders[other]
                   /\ emitted' = <<[name |-> "OrderCreated", id |-> lastCall'.id,
                                    maker |-> lastCall'.sender, tokenIn |-> tokenIn,
                                    tokenOut |-> tokenOut, deadline |-> deadline]>>]_vars

\* C19 witness: a second order has just been created with the transfer asked for, by
\* a maker other than the first order's, and is stored unfilled and uncancelled.
C19_Witness ==
    /\ lastCall.op = "createOrder"
    /\ lastCall.ok
    /\ lastCall.id = 1
    /\ Len(transfers) = 1
    /\ orders[1].maker = lastCall.sender
    /\ orders[1].maker # orders[0].maker
    /\ ~orders[1].filled /\ ~orders[1].cancelled
    /\ orders[1].takerPayEnc = EmptyHandle

\* C20: once an order is created, its maker, tokenIn, tokenOut, amountInEnc,
\* amountOutEnc, takerEnc and deadline are the same after every step: no cancelOrder,
\* fillOrder, finalizeFill, revealTerms, setGateway or createOrder of another order
\* changes them.
C20_TermsNeverChangeAfterCreation ==
    [][\A id \in Ids :
          id < nextOrderId =>
             /\ orders'[id].maker = orders[id].maker
             /\ orders'[id].tokenIn = orders[id].tokenIn
             /\ orders'[id].tokenOut = orders[id].tokenOut
             /\ orders'[id].amountInEnc = orders[id].amountInEnc
             /\ orders'[id].amountOutEnc = orders[id].amountOutEnc
             /\ orders'[id].takerEnc = orders[id].takerEnc
             /\ orders'[id].deadline = orders[id].deadline]_vars

\* C20 witness: the first order has been through fillOrder, finalizeFill and
\* revealTerms, a second order has been created and cancelled, and the first order
\* still carries the handles of its creation.
C20_Witness ==
    /\ nextOrderId = 2
    /\ orders[0].takerPayEnc # EmptyHandle
    /\ orders[0].filled
    /\ orders[0].amountInEnc \in publiclyDecryptable
    /\ orders[1].cancelled
    /\ orders[0].amountInEnc = HandleOf(1, 0)
    /\ orders[0].amountOutEnc = HandleOf(1, 1)
    /\ orders[0].takerEnc = HandleOf(1, 2)

\* C21: after every step, an order whose takerPayEnc is not empty has a FillRequested
\* event for its id in the history; and takerPayEnc changes in no step other than a
\* successful fillOrder on that order, so createOrder, cancelOrder, finalizeFill and
\* revealTerms never set it.
C21_TakerPayOnlyAfterFillRequested ==
    [][\A id \in Ids :
          /\ orders'[id].takerPayEnc # EmptyHandle => \E t \in Addr : <<id, t>> \in fillLog'
          /\ orders'[id].takerPayEnc # orders[id].takerPayEnc =>
                /\ CallStep("fillOrder")
                /\ lastCall'.ok
                /\ lastCall'.id = id
                /\ emitted' = <<[name |-> "FillRequested", id |-> id, taker |-> lastCall'.sender]>>]_vars

\* C21 witness: the first order carries a taker payment and has since been finalized
\* and revealed, while the second order, created and cancelled, never had a fill
\* requested and carries none.
C21_Witness ==
    /\ orders[0].takerPayEnc # EmptyHandle
    /\ \E t \in Addr : <<0, t>> \in fillLog
    /\ orders[0].filled
    /\ orders[0].amountInEnc \in publiclyDecryptable
    /\ orders[1].cancelled
    /\ orders[1].takerPayEnc = EmptyHandle
    /\ \A t \in Addr : <<1, t>> \notin fillLog

\* C22: on an id that was never created (id >= nextOrderId) every cancelOrder,
\* fillOrder, finalizeFill and revealTerms fails, whoever calls it, the gateway
\* included, and changes nothing; and isOpen of such an id is false.
C22_NothingOnAnUncreatedId ==
    [][/\ \A op \in {"cancelOrder", "fillOrder", "finalizeFill", "revealTerms"} :
             (CallStep(op) /\ lastCall'.id >= nextOrderId) => NothingHappened
       /\ \A id \in Ids : id >= nextOrderId => ~isOpen(id)]_vars

\* C22 witness: one order exists, and the gateway's finalizeFill on the id after it
\* has just been rejected.
C22_Witness ==
    /\ lastCall.op = "finalizeFill"
    /\ ~lastCall.ok
    /\ lastCall.sender = gateway
    /\ nextOrderId = 1
    /\ lastCall.id = 1
    /\ orders[1] = DefaultOrder

\* C23: cancelOrder, finalizeFill, revealTerms and setGateway request no transfer; a
\* createOrder or fillOrder requests none unless asked to, and when asked to and
\* successful exactly one: of the offered amount in tokenOut, respectively of the
\* payment in the order's tokenIn, from the caller to the contract itself. So no
\* transfer ever has the contract as its source.
C23_TransfersOnlyIntoCustody ==
    [][/\ \A op \in {"cancelOrder", "finalizeFill", "revealTerms", "setGateway"} :
             CallStep(op) => transfers' = <<>>
       /\ \A i \in 1 .. Len(transfers') :
             /\ transfers'[i].from = lastCall'.sender
             /\ transfers'[i].from # ThisAddr
             /\ transfers'[i].to = ThisAddr
       /\ (CallStep("createOrder") /\ lastCall'.ok) =>
             \A tokenIn \in {NullAddr, TokenInAddr}, tokenOut \in {NullAddr, TokenOutAddr} :
             \A b \in Inputs, deadline \in Times :
             \A attestationOk \in BOOLEAN, doTransferOut \in BOOLEAN, transferOk \in BOOLEAN :
                 createOrder(lastCall'.sender, tokenIn, tokenOut, HandleOf(b, 0), HandleOf(b, 1), HandleOf(b, 2), attestationOk, deadline, doTransferOut, transferOk)
                   => transfers' = IF doTransferOut
                                   THEN <<[token |-> tokenOut, from |-> lastCall'.sender,
                                           to |-> ThisAddr, amount |-> HandleOf(b, 1)]>>
                                   ELSE <<>>
       /\ (CallStep("fillOrder") /\ lastCall'.ok) =>
             \A p \in Pays :
             \A attestationOk \in BOOLEAN, doTransferIn \in BOOLEAN, transferOk \in BOOLEAN :
                 fillOrder(lastCall'.sender, lastCall'.id, PayHandleOf(p), attestationOk, doTransferIn, transferOk)
                   => transfers' = IF doTransferIn
                                   THEN <<[token |-> orders[lastCall'.id].tokenIn,
                                           from |-> lastCall'.sender,
                                           to |-> ThisAddr, amount |-> PayHandleOf(p)]>>
                                   ELSE <<>>]_vars

\* C23 witness: a fillOrder asked to transfer has just succeeded with its one transfer
\* from the taker into the contract, on an order whose offered amount is in escrow.
C23_Witness ==
    /\ lastCall.op = "fillOrder"
    /\ lastCall.ok
    /\ Len(transfers) = 1
    /\ transfers[1].from = lastCall.sender
    /\ transfers[1].to = ThisAddr
    /\ transfers[1].token = orders[lastCall.id].tokenIn
    /\ orders[lastCall.id].amountOutEnc \in allowedThis

\* C24: a successful fillOrder changes nothing in storage but the order's
\* takerPayEnc: the order stays neither filled nor cancelled and isOpen stays true.
\* Afterwards, on an order with a recorded payment that is neither filled nor
\* cancelled, the maker's cancelOrder succeeds, and so does the gateway's
\* finalizeFill while the deadline has not passed.
C24_FillRequestLeavesOrderOpen ==
    [][/\ (CallStep("fillOrder") /\ lastCall'.ok) =>
             /\ orders' = [orders EXCEPT ![lastCall'.id].takerPayEnc =
                                            orders'[lastCall'.id].takerPayEnc]
             /\ orders'[lastCall'.id].takerPayEnc # EmptyHandle
             /\ orders'[lastCall'.id].filled = FALSE
             /\ orders'[lastCall'.id].cancelled = FALSE
             /\ isOpen(lastCall.id)'
             /\ UNCHANGED <<deployed, gateway, nextOrderId, allowedThis, publiclyDecryptable>>
       /\ (/\ CallStep("cancelOrder")
           /\ lastCall'.sender = orders[lastCall'.id].maker
           /\ orders[lastCall'.id].takerPayEnc # EmptyHandle
           /\ ~orders[lastCall'.id].filled /\ ~orders[lastCall'.id].cancelled)
             => (lastCall'.ok /\ orders'[lastCall'.id].cancelled)
       /\ (/\ CallStep("finalizeFill")
           /\ lastCall'.sender = gateway
           /\ orders[lastCall'.id].takerPayEnc # EmptyHandle
           /\ ~orders[lastCall'.id].filled /\ ~orders[lastCall'.id].cancelled
           /\ now <= orders[lastCall'.id].deadline)
             => (lastCall'.ok /\ orders'[lastCall'.id].filled)]_vars

\* C24 witness: an order with a recorded taker payment has just been cancelled by
\* its maker, within its deadline.
C24_Witness ==
    /\ lastCall.op = "cancelOrder"
    /\ lastCall.ok
    /\ orders[lastCall.id].takerPayEnc # EmptyHandle
    /\ orders[lastCall.id].cancelled
    /\ ~orders[lastCall.id].filled
    /\ now <= orders[lastCall.id].deadline

\* C25: one address at a time holds the gateway's rights. Every finalizeFill and
\* setGateway that succeeds was sent by the current gateway; one sent by an address
\* that setGateway has replaced, and that is not the gateway again, fails and changes
\* nothing; the current gateway's finalizeFill succeeds on every created order that is
\* neither closed nor expired, whenever it was created or fill-requested, and its
\* setGateway is refused only for naming the null address.
C25_OneGatewayAtATime ==
    [][\A op \in {"finalizeFill", "setGateway"} :
          CallStep(op) =>
             /\ lastCall'.ok => lastCall'.sender = gateway
             /\ (lastCall'.sender \in formerGateways /\ lastCall'.sender # gateway)
                   => NothingHappened
             /\ (/\ op = "finalizeFill"
                 /\ lastCall'.sender = gateway
                 /\ lastCall'.id < nextOrderId
                 /\ ~orders[lastCall'.id].filled /\ ~orders[lastCall'.id].cancelled
                 /\ now <= orders[lastCall'.id].deadline)
                   => (lastCall'.ok /\ orders'[lastCall'.id].filled)
             /\ (op = "setGateway" /\ lastCall'.sender = gateway)
                   => (lastCall'.ok \/ lastCall'.err = "gateway=0")]_vars

\* C25 witness: the gateway has been replaced, and the new gateway has just finalized
\* an order on which a fill had been requested.
C25_Witness ==
    /\ lastCall.op = "finalizeFill"
    /\ lastCall.ok
    /\ lastCall.sender = gateway
    /\ formerGateways # {}
    /\ gateway \notin formerGateways
    /\ \E t \in Addr : <<lastCall.id, t>> \in fillLog

C27_DeadlineBoundary ==
    [][/\ (CallStep("createOrder") /\ lastCall'.ok) =>
             \A tokenIn \in {NullAddr, TokenInAddr}, tokenOut \in {NullAddr, TokenOutAddr} :
             \A b \in Inputs, deadline \in Times :
             \A attestationOk \in BOOLEAN, doTransferOut \in BOOLEAN, transferOk \in BOOLEAN :
                 createOrder(lastCall'.sender, tokenIn, tokenOut, HandleOf(b, 0), HandleOf(b, 1), HandleOf(b, 2), attestationOk, deadline, doTransferOut, transferOk)
                   => (deadline # now /\ deadline > now)
       /\ \A op \in {"fillOrder", "finalizeFill"} :
             (/\ CallStep(op)
              /\ lastCall'.id < nextOrderId
              /\ orders[lastCall'.id].filled = FALSE /\ orders[lastCall'.id].cancelled = FALSE
              /\ op = "finalizeFill" => lastCall'.sender = gateway)
                => IF now <= orders[lastCall'.id].deadline
                   THEN lastCall'.ok \/ lastCall'.err \in {"transfer", "attestation"}
                   ELSE NothingHappened /\ lastCall'.err = "expired"
       /\ \A id \in Ids :
             (id < nextOrderId /\ orders[id].filled = FALSE /\ orders[id].cancelled = FALSE)
                => (isOpen(id) <=> now <= orders[id].deadline)]_vars

\* C27 witness: a fill request has gone through on an order whose deadline is the
\* current instant, and the order is open.
C27_Witness ==
    /\ lastCall.op = "fillOrder"
    /\ lastCall.ok
    /\ now = orders[lastCall.id].deadline
    /\ orders[lastCall.id].takerPayEnc # EmptyHandle
    /\ isOpen(lastCall.id)

\* C28: the race between the maker's cancelOrder and the gateway's finalizeFill on an
\* open order with a recorded fill request. Whichever of the two is sequenced while
\* the order is still open succeeds and closes it its own way; the one sequenced
\* after it finds the order closed, fails with "closed" and changes nothing; so the
\* order ends filled or cancelled, never both.
C28_CancelFinalizeRaceHasOneWinner ==
    [][/\ (/\ CallStep("cancelOrder") \/ CallStep("finalizeFill")
           /\ lastCall'.sender = (IF lastCall'.op = "cancelOrder"
                                  THEN orders[lastCall'.id].maker ELSE gateway)
           /\ orders[lastCall'.id].takerPayEnc # EmptyHandle)
             => IF orders[lastCall'.id].filled \/ orders[lastCall'.id].cancelled
                THEN NothingHappened /\ lastCall'.err = "closed"
                ELSE IF lastCall'.op = "cancelOrder"
                THEN /\ lastCall'.ok
                     /\ orders'[lastCall'.id].cancelled
                     /\ ~orders'[lastCall'.id].filled
                ELSE now <= orders[lastCall'.id].deadline =>
                        /\ lastCall'.ok
                        /\ orders'[lastCall'.id].filled
                        /\ ~orders'[lastCall'.id].cancelled
       /\ \A id \in Ids : ~(orders'[id].filled /\ orders'[id].cancelled)]_vars

\* C28 witness: on an order with a recorded fill request the maker's cancelOrder came
\* first, and the gateway's finalizeFill, sequenced after it and still within the
\* deadline, has just been rejected as closed.
C28_Witness ==
    /\ lastCall.op = "finalizeFill"
    /\ ~lastCall.ok
    /\ lastCall.err = "closed"
    /\ lastCall.sender = gateway
    /\ orders[lastCall.id].takerPayEnc # EmptyHandle
    /\ orders[lastCall.id].cancelled
    /\ ~orders[lastCall.id].filled
    /\ now <= orders[lastCall.id].deadline

\* C29 (as stated): the terms of a live order stay confidential, also when all
\* orders are one maker's and share their external handles: no amountInEnc,
\* amountOutEnc or takerEnc of a created order that is neither filled nor cancelled is
\* publicly decryptable, and no takerPayEnc is publicly decryptable.
C29_LiveTermsNotPubliclyDecryptable ==
    (\A i, j \in Ids : (i < nextOrderId /\ j < nextOrderId) => orders[i].maker = orders[j].maker)
      => /\ \A id \in Ids :
               (id < nextOrderId /\ ~orders[id].filled /\ ~orders[id].cancelled) =>
                  {orders[id].amountInEnc, orders[id].amountOutEnc, orders[id].takerEnc}
                     \cap publiclyDecryptable = {}
         /\ \A id \in Ids : orders[id].takerPayEnc \notin publiclyDecryptable

\* C30 (as stated): the taker named at finalization requested the fill: whenever a
\* finalizeFill on an order with a recorded fill request emits OrderFinalized(id,
\* taker), a FillRequested(id, taker) with the same id and taker is in the history.
C30_FinalizedTakerRequestedTheFill ==
    [][(/\ CallStep("finalizeFill")
        /\ lastCall'.ok
        /\ orders[lastCall'.id].takerPayEnc # EmptyHandle)
          => \A i \in 1 .. Len(emitted') :
                emitted'[i].name = "OrderFinalized" =>
                   <<emitted'[i].id, emitted'[i].taker>> \in fillLog]_vars

\* C31 (as stated): for every order at most one taker payment is ever escrowed: the
\* payments that successful fillOrder calls have moved into custody for one order
\* number at most one, and each of them is the one the order's takerPayEnc refers to.
C31_AtMostOneEscrowedPaymentPerOrder ==
    /\ \A id \in Ids : Cardinality({e \in custody : e[1] = id}) <= 1
    /\ \A e \in custody : e[2] = orders[e[1]].takerPayEnc

\* C32: the order of the events of one id. Every event a transaction emits for an id
\* other than OrderCreated comes after the OrderCreated of that id, which is emitted
\* when no event of the id has been emitted yet, hence once; OrderFinalized and
\* OrderCancelled are emitted only when neither has been emitted for the id, hence at
\* most one of them and at most once; FillRequested is emitted only before them; and
\* TermsRevealed only after one of them. Every created id has its OrderCreated in
\* the history, and an id not yet created has no event at all.
C32_PerOrderEventOrdering ==
    [][/\ now' = now =>
             \A i \in 1 .. Len(emitted') :
                LET id == emitted'[i].id
                    name == emitted'[i].name
                    closedBefore == \/ <<id, "OrderFinalized">> \in eventLog
                                    \/ <<id, "OrderCancelled">> \in eventLog
                IN  /\ name = "OrderCreated" =>
                          \A n \in {"OrderCreated", "FillRequested", "OrderFinalized",
                                     "OrderCancelled", "TermsRevealed"} : <<id, n>> \notin eventLog
                    /\ name # "OrderCreated" => <<id, "OrderCreated">> \in eventLog
                    /\ name \in {"OrderFinalized", "OrderCancelled", "FillRequested"} => ~closedBefore
                    /\ name = "TermsRevealed" => closedBefore
       /\ \A id \in Ids :
             /\ id < nextOrderId' => <<id, "OrderCreated">> \in eventLog'
             /\ id >= nextOrderId' => \A e \in eventLog' : e[1] # id
             /\ ~(<<id, "OrderFinalized">> \in eventLog' /\ <<id, "OrderCancelled">> \in eventLog')]_vars

\* C32 witness: the first order has gone through OrderCreated, FillRequested,
\* OrderFinalized and TermsRevealed, the second through OrderCreated and
\* OrderCancelled.
C32_Witness ==
    /\ {<<0, "OrderCreated">>, <<0, "FillRequested">>, <<0, "OrderFinalized">>,
        <<0, "TermsRevealed">>, <<1, "OrderCreated">>, <<1, "OrderCancelled">>} \subseteq eventLog
    /\ orders[0].filled
    /\ orders[1].cancelled

\* C33: isOpen is monotone per order and every order closes. Once isOpen(id) is false
\* for a created order no step makes it true again (time only increases, and the
\* filled and cancelled flags are never cleared); and with time passing, every
\* created order is eventually not open and stays so.
C33_IsOpenMonotoneAndEventuallyFalse ==
    /\ [][\A id \in Ids : Created(id) /\ ~isOpen(id) => ~isOpen(id)']_vars
    /\ \A id \in Ids : Created(id) ~> [](~isOpen(id))

\* C33 witness: one created order was left unfilled and uncancelled until time
\* passed its deadline, the other was closed by a fill; neither is open.
C33_Witness ==
    /\ nextOrderId = 2
    /\ ~orders[0].filled /\ ~orders[0].cancelled /\ now > orders[0].deadline
    /\ orders[1].filled
    /\ ~isOpen(0) /\ ~isOpen(1)

\* C34: the id counter counts the successful creations. After every step nextOrderId
\* equals the number of createOrder calls that succeeded, every id below it holds an
\* order whose maker is not the null address, every id at or above it holds the
\* default record, and a call that fails leaves the counter where it was.
C34_CounterCountsSuccessfulCreates ==
    [][/\ creates' = nextOrderId'
       /\ \A id \in Ids :
             /\ id < nextOrderId' => orders'[id].maker # NullAddr
             /\ id >= nextOrderId' =>
                   /\ orders'[id] = DefaultOrder
                   /\ orders'[id].maker = NullAddr
                   /\ ~orders'[id].filled /\ ~orders'[id].cancelled
                   /\ orders'[id].deadline = 0
       /\ (now' = now /\ ~lastCall'.ok) => nextOrderId' = nextOrderId
       /\ (now' = now /\ lastCall'.op # "createOrder") => nextOrderId' = nextOrderId]_vars

\* C34 witness: one creation succeeded and a later createOrder call failed; the
\* counter is 1, id 0 has a maker and id 1 is still the default record.
C34_Witness ==
    /\ creates = 1
    /\ nextOrderId = 1
    /\ lastCall.op = "createOrder" /\ ~lastCall.ok
    /\ orders[0].maker # NullAddr
    /\ orders[1] = DefaultOrder

C36_HookStatusAgreesWithIsOpen ==
    /\ FetchedIds = {id \in Ids : Created(id)}
    /\ \A id \in FetchedIds :
          /\ Status(id) \in {"filled", "cancelled", "expired", "active"}
          /\ Status(id) = "filled" <=> orders[id].filled
          /\ Status(id) = "cancelled" <=> ~orders[id].filled /\ orders[id].cancelled
          /\ Status(id) = "expired" <=>
                ~orders[id].filled /\ ~orders[id].cancelled /\ orders[id].deadline < now
          /\ Status(id) = "active" <=> isOpen(id)

\* C36 witness: at the deadline of the first order, which is neither filled nor
\* cancelled, the hook shows it active and the contract reports it open, while the
\* second order carries a deadline that Number() rounds and is shown active too.
C36_Witness ==
    /\ nextOrderId = 2
    /\ now = orders[0].deadline
    /\ Status(0) = "active" /\ isOpen(0)
    /\ orders[1].deadline = FarDeadline
    /\ ToNumber(orders[1].deadline) # orders[1].deadline
    /\ Status(1) = "active" /\ isOpen(1)
====
